---------------------------- MODULE Spec2Model ----------------------------
(***************************************************************************)
(* Model of the particle engine (ParticleSystem component, AudioService).  *)
(*                                                                         *)
(* Numbers.  JavaScript numbers are modelled in fixed point: the integer n *)
(* stands for n / One.  Every product and quotient is rounded to the       *)
(* nearest unit, which stands for the rounding of the float arithmetic and *)
(* of the Float32Array stores.  NaN is a value of its own that every       *)
(* arithmetic operation propagates.  Math.sin, Math.cos and Math.acos are  *)
(* computed by Bhaskara's rational approximation, which is exact at the    *)
(* multiples of a quarter turn.                                            *)
(*                                                                         *)
(* Randomness.  Math.random() is modelled by a small set of streams: one   *)
(* stream is picked for each run of a sampler or of the frame loop, and    *)
(* the k-th call of Math.random() in that run returns the k-th value of    *)
(* the stream.                                                             *)
(***************************************************************************)
EXTENDS Integers, Sequences, FiniteSets, TLC

\* ------------------------------------------------------------- bounds ----
MaxCount == 2
MaxChanges == 1
MaxFrames == 2
Tick == 400
MaxAura == 2
MaxWords == 3
MaxCalls == 3

\* ------------------------------------------------------------ numbers ----
One == 1000
NaN == -2000000000
PI == 3142

IsNaN(a) == a = NaN
RoundDiv(n, d) == (2 * n + d) \div (2 * d)
FAdd(a, b) == IF IsNaN(a) \/ IsNaN(b) THEN NaN ELSE a + b
FSub(a, b) == IF IsNaN(a) \/ IsNaN(b) THEN NaN ELSE a - b
FMul(a, b) == IF IsNaN(a) \/ IsNaN(b) THEN NaN ELSE RoundDiv(a * b, One)
FDiv(a, b) == IF IsNaN(a) \/ IsNaN(b) \/ b = 0 THEN NaN ELSE
              IF b > 0 THEN RoundDiv(a * One, b) ELSE RoundDiv(-(a * One), -b)
FMin(a, b) == IF IsNaN(a) \/ IsNaN(b) THEN NaN ELSE IF a < b THEN a ELSE b
Abs(a) == IF a < 0 THEN -a ELSE a

RECURSIVE SqrtIter(_, _, _)
SqrtIter(n, lo, hi) ==
    IF lo >= hi THEN lo
    ELSE LET mid == (lo + hi + 1) \div 2
         IN  IF mid * mid <= n THEN SqrtIter(n, mid, hi) ELSE SqrtIter(n, lo, mid - 1)
\* floor of the square root of a natural number below 2^31
ISqrt(n) == SqrtIter(n, 0, 46340)
\* Math.sqrt of a fixed-point number
FSqrt(a) == IF IsNaN(a) \/ a < 0 THEN NaN ELSE ISqrt(a * One)

\* Bhaskara's approximation of sin on [0, pi], the angle c in 1/100 rad
HalfTurn == PI \div 10
Bhaskara(c) == RoundDiv(16 * c * (HalfTurn - c) * One,
                        5 * HalfTurn * HalfTurn - 4 * c * (HalfTurn - c))
SinC(c) == LET r == c % (2 * HalfTurn)
           IN  IF r <= HalfTurn THEN Bhaskara(r) ELSE -Bhaskara(r - HalfTurn)
Sin(a) == IF IsNaN(a) THEN NaN ELSE SinC(RoundDiv(a, 10))
Cos(a) == IF IsNaN(a) THEN NaN ELSE SinC(RoundDiv(a, 10) + HalfTurn \div 2)

RECURSIVE AcosIter(_, _, _)
\* the least angle in lo..hi (1/100 rad) whose cosine is at most x
AcosIter(x, lo, hi) ==
    IF lo >= hi THEN lo
    ELSE LET mid == (lo + hi) \div 2
         IN  IF SinC(mid + HalfTurn \div 2) <= x THEN AcosIter(x, lo, mid)
             ELSE AcosIter(x, mid + 1, hi)
\* Math.acos: NaN outside [-1, 1]; acos(-x) = pi - acos(x)
Acos(x) == IF IsNaN(x) \/ x > One \/ x < -One THEN NaN
           ELSE IF x >= 0 THEN 10 * AcosIter(x, 0, HalfTurn)
           ELSE 10 * (HalfTurn - AcosIter(-x, 0, HalfTurn))

\* ------------------------------------------------------- Math.random ----
Streams == { <<500>>, <<0, 750, 500>> }
Rand(rnd, k) == rnd[(k % Len(rnd)) + 1]

\* ----------------------------------------------------- ParticleShape ----
SPHERE == "SPHERE"
CUBE == "CUBE"
TORUS == "TORUS"
GALAXY == "GALAXY"
DNA == "DNA"
SATURN == "SATURN"
PYRAMID == "PYRAMID"
BIG_BANG == "BIG_BANG"
TEXT == "TEXT"
NUMBER == "NUMBER"
ParticleShape == { SPHERE, CUBE, TORUS, GALAXY, DNA, SATURN, PYRAMID, BIG_BANG,
                   TEXT, NUMBER }

\* ------------------------------------------------ generateTextPositions ----
\* What the canvas gives for one glyph: no 2D context, or the foreground
\* pixels found by the scan (possibly none).
NoCtx == "noctx"
size == 100
Canvases == { NoCtx, <<>>, << <<25, 25>>, <<75, 50>> >> }

Zeros(n) == [j \in 1..n |-> 0]

\* one particle of the glyph: a random foreground pixel and a small depth
TextPoint(validPixels, radius, rnd, k) ==
    LET pick  == (Rand(rnd, k) * Len(validPixels)) \div One
        pixel == validPixels[pick + 1]
        x == FMul(FMul(FDiv(pixel[1] * One, size * One) - One \div 2, radius), 1500)
        y == FMul(FMul(-(FDiv(pixel[2] * One, size * One) - One \div 2), radius), 1500)
        z == FMul(FMul(Rand(rnd, k + 1) - One \div 2, radius), 200)
    IN  <<x, y, z>>

RECURSIVE TextLoop(_, _, _, _, _, _)
TextLoop(validPixels, pCount, radius, rnd, i, acc) ==
    IF i >= pCount THEN acc
    ELSE TextLoop(validPixels, pCount, radius, rnd, i + 1,
                  acc \o TextPoint(validPixels, radius, rnd, 2 * i))

\* variant: nothing is allocated when there is nothing to sample from
generateTextPositionsEmpty(canvas, pCount, radius, rnd) ==
    IF canvas = NoCtx THEN <<>>
    ELSE IF Len(canvas) = 0 THEN <<>>
    ELSE TextLoop(canvas, pCount, radius, rnd, 0, <<>>)

generateTextPositions(canvas, pCount, radius, rnd) ==
    IF canvas = NoCtx THEN Zeros(pCount * 3)
    ELSE IF Len(canvas) = 0 THEN Zeros(pCount * 3)
    ELSE TextLoop(canvas, pCount, radius, rnd, 0, <<>>)

\* ---------------------------------------------- generateTargetPositions ----
\* i / pCount as a number
Frac(i, pCount) == RoundDiv(i * One, pCount)

SpherePoint(i, n, r) ==
    \* n is the (fixed-point) number of points on the sphere, r its radius
    LET phi   == Acos(FDiv(2 * i * One, n) - One)
        theta == FMul(FSqrt(FMul(n, PI)), phi)
    IN  << FMul(FMul(r, Cos(theta)), Sin(phi)),
           FMul(FMul(r, Sin(theta)), Sin(phi)),
           FMul(r, Cos(phi)) >>

CubePoint(radius, rnd, k) ==
    << FMul(FMul(Rand(rnd, k) - One \div 2, radius), 1500),
       FMul(FMul(Rand(rnd, k + 1) - One \div 2, radius), 1500),
       FMul(FMul(Rand(rnd, k + 2) - One \div 2, radius), 1500) >>

TorusPoint(radius, rnd, k) ==
    LET u == FMul(Rand(rnd, k), PI) * 2
        v == FMul(Rand(rnd, k + 1), PI) * 2
        tubeRadius == FMul(radius, 300)
    IN  << FMul(radius + FMul(tubeRadius, Cos(v)), Cos(u)),
           FMul(radius + FMul(tubeRadius, Cos(v)), Sin(u)),
           FMul(tubeRadius, Sin(v)) >>

GalaxyPoint(i, pCount, radius, rnd, k) ==
    LET armCount == 3
        spin == FMul(Frac(i, pCount) * armCount, PI) * 2
        r == FMul(Frac(i, pCount), radius)
        randomOffset == FMul(Rand(rnd, k) - One \div 2, FMul(radius, 200))
    IN  << FMul(r, Cos(spin)) + randomOffset,
           FMul(Rand(rnd, k + 1) - One \div 2, FMul(r, 200)),
           FMul(r, Sin(spin)) + randomOffset >>

DnaPoint(i, pCount, radius, rnd, k) ==
    LET strands == 2
        strandIdx == i % strands
        t == FMul(Frac(i, pCount), PI) * 10
        height == FMul(FMul(Frac(i, pCount), radius), 2500) - FMul(radius, 1250)
        r == FMul(radius, 500)
        offset == strandIdx * PI
    IN  << FMul(r, Cos(t + offset)) + (Rand(rnd, k) - One \div 2),
           height,
           FMul(r, Sin(t + offset)) + (Rand(rnd, k + 1) - One \div 2) >>

\* i < pCount * 0.7: the particle belongs to the planet, not to the ring
InPlanet(i, pCount) == i * One < pCount * 700

SaturnPoint(i, pCount, radius, rnd, k) ==
    IF InPlanet(i, pCount)
    THEN SpherePoint(i, pCount * 700, FMul(radius, 600))
    ELSE LET theta == FMul(Rand(rnd, k), PI) * 2
             rMin == FMul(radius, 800)
             rMax == FMul(radius, 1500)
             r == FMul(FSqrt(Rand(rnd, k + 1)), rMax - rMin) + rMin
         IN  << FMul(r, Cos(theta)),
                FMul(Rand(rnd, k + 2) - One \div 2, 200),
                FMul(r, Sin(theta)) >>

\* the barycentric fold of three uniforms: <<a, b, c>>
PyramidFold(a0, b0, c0) ==
    LET f1 == IF a0 + b0 > One THEN <<One - a0, One - b0, c0>> ELSE <<a0, b0, c0>>
        f2 == IF f1[2] + f1[3] > One THEN <<f1[1], One - f1[2], One - f1[3]>> ELSE f1
        f3 == IF f2[1] + f2[2] + f2[3] > One
              THEN <<One - f2[1], One - f2[2], One - f2[3]>> ELSE f2
    IN  f3

PyramidPoint(radius, rnd, k) ==
    LET w == PyramidFold(Rand(rnd, k), Rand(rnd, k + 1), Rand(rnd, k + 2))
        a == w[1]
        b == w[2]
        c == w[3]
        d == One - a - b - c
        s == FMul(radius, 1500)
        v1 == <<s, s, s>>
        v2 == <<-s, -s, s>>
        v3 == <<-s, s, -s>>
        v4 == <<s, -s, -s>>
    IN  [ax \in 1..3 |->
            FMul(a, v1[ax]) + FMul(b, v2[ax]) + FMul(c, v3[ax]) + FMul(d, v4[ax])]

BigBangPoint(radius, rnd, k) ==
    LET r == FMul(Rand(rnd, k), radius) * 2
        theta == FMul(Rand(rnd, k + 1), PI) * 2
        phi == Acos(2 * Rand(rnd, k + 2) - One)
    IN  << FMul(FMul(r, Sin(phi)), Cos(theta)),
           FMul(FMul(r, Sin(phi)), Sin(theta)),
           FMul(r, Cos(phi)) >>

\* variant: a switch without the default label
ShapePointNoDefault(type, i, pCount, radius, rnd, k) ==
    CASE type = SPHERE  -> SpherePoint(i, pCount * One, radius)
      [] type = CUBE    -> CubePoint(radius, rnd, k)
      [] type = TORUS   -> TorusPoint(radius, rnd, k)
      [] type = GALAXY  -> GalaxyPoint(i, pCount, radius, rnd, k)
      [] type = DNA     -> DnaPoint(i, pCount, radius, rnd, k)
      [] type = SATURN  -> SaturnPoint(i, pCount, radius, rnd, k)
      [] type = PYRAMID -> PyramidPoint(radius, rnd, k)
      [] type = BIG_BANG -> BigBangPoint(radius, rnd, k)
      [] OTHER          -> <<0, 0, 0>>

\* the switch of the loop body: the point of particle i
ShapePoint(type, i, pCount, radius, rnd, k) ==
    CASE type = SPHERE  -> SpherePoint(i, pCount * One, radius)
      [] type = CUBE    -> CubePoint(radius, rnd, k)
      [] type = TORUS   -> TorusPoint(radius, rnd, k)
      [] type = GALAXY  -> GalaxyPoint(i, pCount, radius, rnd, k)
      [] type = DNA     -> DnaPoint(i, pCount, radius, rnd, k)
      [] type = SATURN  -> SaturnPoint(i, pCount, radius, rnd, k)
      [] type = PYRAMID -> PyramidPoint(radius, rnd, k)
      [] OTHER          -> BigBangPoint(radius, rnd, k)

\* the number of Math.random() calls the loop body makes for particle i
RandCalls(type, i, pCount) ==
    CASE type = SPHERE  -> 0
      [] type = CUBE    -> 3
      [] type = TORUS   -> 2
      [] type = GALAXY  -> 2
      [] type = DNA     -> 2
      [] type = SATURN  -> IF InPlanet(i, pCount) THEN 0 ELSE 3
      [] type = PYRAMID -> 3
      [] OTHER          -> 3

\* variant: the loop stops one particle early
RECURSIVE ShapeLoopShort(_, _, _, _, _, _, _)
ShapeLoopShort(type, pCount, radius, rnd, i, k, acc) ==
    IF i + 1 >= pCount THEN acc
    ELSE ShapeLoopShort(type, pCount, radius, rnd, i + 1, k + RandCalls(type, i, pCount),
                        acc \o ShapePoint(type, i, pCount, radius, rnd, k))
RECURSIVE ShapeLoop(_, _, _, _, _, _, _)
ShapeLoop(type, pCount, radius, rnd, i, k, acc) ==
    IF i >= pCount THEN acc
    ELSE ShapeLoop(type, pCount, radius, rnd, i + 1, k + RandCalls(type, i, pCount),
                   acc \o ShapePoint(type, i, pCount, radius, rnd, k))

generateTargetPositions(type, pCount, radius, canvas, rnd) ==
    IF type = TEXT THEN generateTextPositions(canvas, pCount, radius, rnd)
    ELSE IF type = NUMBER THEN generateTextPositions(canvas, pCount, radius, rnd)
    ELSE ShapeLoop(type, pCount, radius, rnd, 0, 0, <<>>)

\* String(n) for an integer n, as character codes
RECURSIVE StringOf(_)
StringOf(n) ==
    IF n < 0 THEN <<45>> \o StringOf(-n)
    ELSE IF n < 10 THEN <<48 + n>>
    ELSE StringOf(n \div 10) \o <<48 + (n % 10)>>
\* the text generateTargetPositions hands to generateTextPositions;
\* String.fromCharCode takes the code modulo 2^16
GlyphText(type, charIndex, numIndex) ==
    IF type = TEXT THEN << (65 + charIndex) % 65536 >>
    ELSE IF type = NUMBER THEN StringOf(numIndex)
    ELSE <<>>

\* ------------------------------------------------------------ colours ----
\* COLOR_PALETTES.CYAN as a byte triple
CYAN == <<0, 243, 255>>
\* new THREE.Color(hex): each channel is byte / 255
ThreeColor(hex) == [c \in 1..3 |-> RoundDiv(hex[c] * One, 255)]
\* new THREE.Color(COLORS.hot)
THREE_COLOR_HOT == ThreeColor(<<255, 255, 255>>)

\* THREE.MathUtils.lerp(x, y, t) = (1 - t) * x + t * y
Lerp(x, y, t) == FAdd(FMul(FSub(One, t), x), FMul(t, y))
\* Vector3.lerp(v, alpha), one component: x += (v.x - x) * alpha
VecLerp(x, v, alpha) == FAdd(x, FMul(FSub(v, x), alpha))

\* ------------------------------------------------------- typed arrays ----
\* arr[idx] of a Float32Array, idx counted from 0: undefined (NaN in the
\* arithmetic that follows) when out of range
Get(arr, idx) == IF idx + 1 \in DOMAIN arr THEN arr[idx + 1] ELSE NaN
\* arr[idx] = v: a store out of range is ignored
Set(arr, idx, v) == IF idx + 1 \in DOMAIN arr THEN [arr EXCEPT ![idx + 1] = v] ELSE arr

\* ------------------------------------------------- physics constants ----
attraction == 30
damping == 920
noiseBase == 20
noiseTreble == 100
heatSpeed == 3000
heatTreble == 500
lerpSpeed == 80
rotLerp == 100

\* variant: ten times the base jitter
NoiseAmtLoud(audioTreble) == 10 * noiseBase + FMul(audioTreble, noiseTreble)
NoiseAmt(audioTreble) == noiseBase + FMul(audioTreble, noiseTreble)
\* (Math.random() - 0.5) * noiseAmt
Noise(r, noiseAmt) == FMul(r - One \div 2, noiseAmt)

\* variant: the velocity is damped before acceleration and noise are added
AxisStepDampFirst(b, targets, idx, r, noiseAmt) ==
    LET a  == FMul(FSub(Get(targets, idx), Get(b.positions, idx)), attraction)
        n  == FMul(r - One \div 2, noiseAmt)
        v1 == Set(b.vels, idx, FMul(Get(b.vels, idx), damping))
        v2 == Set(v1, idx, FAdd(Get(v1, idx), FAdd(a, n)))
        p  == Set(b.positions, idx, FAdd(Get(b.positions, idx), Get(v2, idx)))
    IN  [b EXCEPT !.vels = v2, !.positions = p]
\* variant: the spring pushes away from the target
AxisStepRepel(b, targets, idx, r, noiseAmt) ==
    LET a  == FMul(FSub(Get(b.positions, idx), Get(targets, idx)), attraction)
        n  == FMul(r - One \div 2, noiseAmt)
        v1 == Set(b.vels, idx, FAdd(Get(b.vels, idx), FAdd(a, n)))
        v2 == Set(v1, idx, FMul(Get(v1, idx), damping))
        p  == Set(b.positions, idx, FAdd(Get(b.positions, idx), Get(v2, idx)))
    IN  [b EXCEPT !.vels = v2, !.positions = p]

\* one axis of one particle: acceleration and noise are added to the
\* velocity, the velocity is damped, the position advanced.  b holds the
\* three arrays.
AxisStep(b, targets, idx, r, noiseAmt) ==
    LET a  == FMul(FSub(Get(targets, idx), Get(b.positions, idx)), attraction)
        n  == Noise(r, noiseAmt)
        v1 == Set(b.vels, idx, FAdd(Get(b.vels, idx), FAdd(a, n)))
        v2 == Set(v1, idx, FMul(Get(v1, idx), damping))
        p  == Set(b.positions, idx, FAdd(Get(b.positions, idx), Get(v2, idx)))
    IN  [b EXCEPT !.vels = v2, !.positions = p]

Square(a) == IF IsNaN(a) THEN NaN ELSE a * a
\* Math.sqrt(vx**2 + vy**2 + vz**2)
Speed(vels, i3) ==
    LET s == FAdd(FAdd(Square(Get(vels, i3)), Square(Get(vels, i3 + 1))),
                  Square(Get(vels, i3 + 2)))
    IN  IF IsNaN(s) THEN NaN ELSE ISqrt(s)
\* variant: Math.max in place of Math.min
HeatMax(speed, audioTreble) ==
    LET t == FAdd(FMul(speed, heatSpeed), FMul(audioTreble, heatTreble))
    IN  IF IsNaN(t) THEN NaN ELSE IF t > One THEN t ELSE One
\* Math.min(speed * 3.0 + audioTreble * 0.5, 1)
Heat(speed, audioTreble) ==
    FMin(FAdd(FMul(speed, heatSpeed), FMul(audioTreble, heatTreble)), One)

ColorStep(b, i3, base, audioTreble) ==
    LET t == Heat(Speed(b.vels, i3), audioTreble)
        c0 == Set(b.colors, i3, Lerp(base[1], THREE_COLOR_HOT[1], t))
        c1 == Set(c0, i3 + 1, Lerp(base[2], THREE_COLOR_HOT[2], t))
        c2 == Set(c1, i3 + 2, Lerp(base[3], THREE_COLOR_HOT[3], t))
    IN  [b EXCEPT !.colors = c2]

\* variant: the bands are read again for every particle after the first, by
\* which time the analyser has gone silent
ParticleStepReread(b, targets, i, base, audioTreble, rnd) ==
    LET i3 == i * 3
        treble == IF i = 0 THEN audioTreble ELSE 0
        na == NoiseAmt(treble)
        bx == AxisStep(b, targets, i3, Rand(rnd, i3), na)
        by == AxisStep(bx, targets, i3 + 1, Rand(rnd, i3 + 1), na)
        bz == AxisStep(by, targets, i3 + 2, Rand(rnd, i3 + 2), na)
    IN  ColorStep(bz, i3, base, treble)

\* the body of the loop for particle i
ParticleStep(b, targets, i, base, audioTreble, rnd) ==
    LET i3 == i * 3
        na == NoiseAmt(audioTreble)
        bx == AxisStep(b, targets, i3, Rand(rnd, i3), na)
        by == AxisStep(bx, targets, i3 + 1, Rand(rnd, i3 + 1), na)
        bz == AxisStep(by, targets, i3 + 2, Rand(rnd, i3 + 2), na)
    IN  ColorStep(bz, i3, base, audioTreble)

RECURSIVE PhysicsLoop(_, _, _, _, _, _, _)
PhysicsLoop(b, targets, i, count, base, audioTreble, rnd) ==
    IF i >= count THEN b
    ELSE PhysicsLoop(ParticleStep(b, targets, i, base, audioTreble, rnd),
                     targets, i + 1, count, base, audioTreble, rnd)

\* ------------------------------------------------------- AudioService ----
\* analyser.getByteFrequencyData: the 256 bins the analyser may deliver
Bins == 0..255
Silence == [k \in Bins |-> 0]
Loud == [k \in Bins |-> 255]
\* silence, full scale, and a hiss in the treble bins only
FreqData == { Silence, Loud, [k \in Bins |-> IF k >= 61 THEN 128 ELSE 0] }

RECURSIVE SumBins(_, _, _)
\* the sum of data[from .. to - 1]
SumBins(data, from, to) ==
    IF from >= to THEN 0
    ELSE IF from + 1 = to THEN data[from]
    ELSE LET mid == (from + to) \div 2
         IN  SumBins(data, from, mid) + SumBins(data, mid, to)
\* variant: the mean of the bytes, not divided by 255
BandOfBytes(data, from, to) == RoundDiv(SumBins(data, from, to) * One, to - from)
\* getAvg(dataArray.slice(from, to)) / 255
BandOf(data, from, to) == RoundDiv(RoundDiv(SumBins(data, from, to) * One, to - from), 255)

NoAudio == [bass |-> 0, mid |-> 0, treble |-> 0, average |-> 0]

\* variant: no isRunning test
getFrequencyDataUnguarded(svc, data) ==
    IF ~svc.analyser \/ ~svc.dataArray THEN NoAudio
    ELSE [bass |-> BandOf(data, 0, 10), mid |-> BandOf(data, 11, 60),
          treble |-> BandOf(data, 61, 255),
          average |-> RoundDiv(BandOf(data, 0, 10) + BandOf(data, 11, 60)
                               + BandOf(data, 61, 255), 3)]
getFrequencyData(svc, data) ==
    IF ~svc.isRunning \/ ~svc.analyser \/ ~svc.dataArray THEN NoAudio
    ELSE LET bass == BandOf(data, 0, 10)
             mid == BandOf(data, 11, 60)
             treble == BandOf(data, 61, 255)
         IN  [bass |-> bass, mid |-> mid, treble |-> treble,
              average |-> RoundDiv(bass + mid + treble, 3)]

\* a new AudioService()
NewAudioService == [isRunning |-> FALSE, analyser |-> FALSE, dataArray |-> FALSE]

\* ------------------------------------------------------------ inputs ----
Counts == 1..MaxCount

Neutral  == [x |-> 0, y |-> 0, isDetected |-> FALSE, isClenched |-> FALSE, handSpread |-> 0]
\* tracking was lost: the pose fields keep their last values
Stale    == [x |-> 500, y |-> -500, isDetected |-> FALSE, isClenched |-> TRUE,
             handSpread |-> 1000]

\* state.mouse: the pointer rests off the centre of the canvas
mouse == [x |-> 500, y |-> -250]

\* the canvas is created for the glyph formations only
CanvasChoices(shape) == IF shape \in {TEXT, NUMBER} THEN Canvases ELSE {NoCtx}

\* the stream after n calls of Math.random()
Shift(rnd, n) == [j \in 1..Len(rnd) |-> rnd[((j - 1 + n) % Len(rnd)) + 1]]

\* -------------------------------------------------------------- state ----
VARIABLES
    props,      \* the props of the latest render of ParticleSystem
    phase,      \* "idle", "rendered" (commit pending), "committed" (effects pending)
    cb,         \* the props captured by the committed useFrame callback
    effDeps,    \* the dependencies of the last run of the shape update effect
    refs,       \* targetPositionsRef, currentPositionsRef, velocitiesRef: buffers
    geom,       \* the geometry attached to pointsRef.current: its two buffers
    memoGeom,   \* the value of the geometry useMemo of the latest render
    heap,       \* the Float32Arrays alive, by identity
    xf,         \* rotation and scale of the core points and of the aura
    handData,   \* handData.current
    audioRef,   \* audioService.current: "null" or "svc"
    audio,      \* the AudioService instance
    fr,         \* the locals of the latest run of the frame callback
    frames,     \* frame callbacks run so far
    changes,    \* external events so far
    auraGeom,   \* the value of the aura geometry useMemo: its positions buffer
    call,       \* a call of a pure function on its own: arguments and result
    voice,      \* the fields of the VoiceService instance
    speech      \* the browser's side of it: recognition session, timers, calls

vars == << props, phase, cb, effDeps, refs, geom, memoGeom, heap, xf, handData,
           audioRef, audio, fr, frames, changes, auraGeom, call, voice, speech >>

radius == 10000
\* PARTICLE_COUNTS.AURA, and the radius of the aura sphere
AURA == 4000
auraRadius == 12000
\* the aura is kept to MaxAura points
auraCount == IF AURA < MaxAura THEN AURA ELSE MaxAura
\* no pure function is being called
NoCall == [fn |-> "none"]
\* new VoiceService(onCommandMatch, onStatusChange); no timer id is 0
NewVoiceService == [recognition |-> FALSE, isListening |-> FALSE,
                    shouldBeRunning |-> FALSE, restartTimer |-> 0]
\* the browser before any recognition session: the session is "idle",
\* "starting" (start() accepted, the start event not yet dispatched) or
\* "active"; timers holds the ids of the pending timeouts; event names the
\* latest step, invoked the method of recognition it called ("none", "start",
\* "stop"), busy whether the session was under way at that call; wanted is
\* what the caller asked for last (start() since the latest stop() or
\* 'not-allowed' error); calls counts the caller's calls
NoSpeech == [session |-> "idle", timers |-> {}, event |-> "none",
             invoked |-> "none", busy |-> FALSE, wanted |-> FALSE, calls |-> 0]

\* the identity of the next array allocated
NewId(h) == CHOOSE n \in 1..(Cardinality(DOMAIN h) + 1) :
                n \notin DOMAIN h /\ \A m \in 1..(n - 1) : m \in DOMAIN h
Alloc(h, data) == LET id == NewId(h) IN [j \in DOMAIN h \cup {id} |-> IF j = id THEN data ELSE h[j]]
\* arrays no reference reaches are collected
Collect(h, r, g, mg, ag) ==
    [j \in DOMAIN h \cap { r.target, r.current, r.vel, g.pos, g.col,
                            mg.pos, mg.col, ag.pos } |-> h[j]]

\* dependency lists
\* variants: a hook that also depends on the shape, or on the colour
InitMemoDepsWithShape(p) == << p.count, p.shape >>
GeometryMemoDepsWithColor(p) == << p.count, p.color >>
InitMemoDeps(p) == << p.count >>
GeometryMemoDeps(p) == << p.count >>
\* variant: the aura geometry also depends on the particle count
AuraMemoDepsWithCount(p) == << auraCount, p.count >>
AuraMemoDeps(p) == << auraCount >>
ShapeEffectDeps(p) == << p.shape, p.count, p.charIndex, p.numIndex >>

\* the three assignments of the initialization useMemo, given the arrays
SetRefs(h, cur, vels, tgt) ==
    [heap |-> Alloc(Alloc(Alloc(h, cur), vels), tgt),
     refs |-> [current |-> NewId(h),
               vel |-> NewId(Alloc(h, <<>>)),
               target |-> NewId(Alloc(Alloc(h, <<>>), <<>>))]]

\* variant: current positions start in the selected shape
InitMemoFromShape(h, p, canvas, rnd) ==
    SetRefs(h, generateTargetPositions(p.shape, p.count, radius, canvas, rnd),
            Zeros(p.count * 3),
            generateTargetPositions(p.shape, p.count, radius, canvas,
                                    Shift(rnd, 3 * p.count)))

\* the initialization useMemo: current positions start as an explosion
InitMemo(h, p, canvas, rnd) ==
    SetRefs(h, generateTargetPositions(BIG_BANG, p.count, radius, NoCtx, rnd),
            Zeros(p.count * 3),
            generateTargetPositions(p.shape, p.count, radius, canvas,
                                    Shift(rnd, 3 * p.count)))

\* the aura geometry useMemo: a sphere of auraCount points
AuraMemo(h) ==
    [heap |-> Alloc(h, generateTargetPositions(SPHERE, auraCount, auraRadius,
                                               NoCtx, <<500>>)),
     geom |-> [pos |-> NewId(h)]]

\* the core geometry useMemo: position is the current positions array, the
\* colour attribute holds the base colour count times
GeometryMemo(h, r, p) ==
    LET h1 == Alloc(h, [j \in 1..(p.count * 3) |->
                          ThreeColor(p.color)[((j - 1) % 3) + 1]])
    IN  [heap |-> h1, geom |-> [pos |-> r.current, col |-> NewId(h)]]

\* ---------------------------------------------------------- rendering ----
\* One run of the component function with props p: the useMemo hooks run
\* again only when one of their dependencies changed.  m is the outcome of
\* the initialization hook, a of the aura geometry hook, g of the core
\* geometry hook.
RenderGeometry(p, m, a, g) ==
    /\ props' = p
    /\ refs' = m.refs
    /\ auraGeom' = a.geom
    /\ memoGeom' = g.geom
    /\ heap' = Collect(g.heap, m.refs, geom, g.geom, a.geom)
    /\ phase' = "rendered"
    /\ changes' = changes + 1
    /\ UNCHANGED << cb, effDeps, geom, xf, handData, audioRef, audio, fr, frames,
                    call, voice, speech >>
RenderAura(p, m, a) ==
    RenderGeometry(p, m, a, IF GeometryMemoDeps(p) # GeometryMemoDeps(props)
                            THEN GeometryMemo(a.heap, m.refs, p)
                            ELSE [heap |-> a.heap, geom |-> memoGeom])
RenderRefs(p, m) ==
    RenderAura(p, m, IF AuraMemoDeps(p) # AuraMemoDeps(props)
                     THEN AuraMemo(m.heap)
                     ELSE [heap |-> m.heap, geom |-> auraGeom])
Render(p, canvas, rnd) ==
    RenderRefs(p, IF InitMemoDeps(p) # InitMemoDeps(props)
                  THEN InitMemo(heap, p, canvas, rnd)
                  ELSE [heap |-> heap, refs |-> refs])

CanRender == phase = "idle" /\ changes < MaxChanges

ChangeShape ==
    /\ CanRender
    /\ \E s \in { SPHERE, CUBE, TEXT, NUMBER } \ {props.shape} :
           Render([props EXCEPT !.shape = s], NoCtx, <<500>>)

ChangeColor ==
    /\ CanRender
    /\ \E c \in { CYAN, <<255, 170, 0>> } \ {props.color} :
           Render([props EXCEPT !.color = c], NoCtx, <<500>>)

ChangeChar ==
    /\ CanRender
    /\ \E k \in { 0, 25 } \ {props.charIndex} :
           Render([props EXCEPT !.charIndex = k], NoCtx, <<500>>)

ChangeNum ==
    /\ CanRender
    /\ \E k \in { 0, 9 } \ {props.numIndex} :
           Render([props EXCEPT !.numIndex = k], NoCtx, <<500>>)

ChangeCount ==
    /\ CanRender
    /\ \E n \in Counts \ {props.count} :
       \E canvas \in CanvasChoices(props.shape) : \E rnd \in Streams :
           Render([props EXCEPT !.count = n], canvas, rnd)

\* The commit: the geometry prop is applied to the points object and the
\* useFrame callback of this render replaces the previous one.
Commit ==
    /\ phase = "rendered"
    /\ geom' = memoGeom
    /\ cb' = props
    /\ heap' = Collect(heap, refs, memoGeom, memoGeom, auraGeom)
    /\ phase' = "committed"
    /\ UNCHANGED << props, effDeps, refs, memoGeom, xf, handData, audioRef, audio,
                    fr, frames, changes,
                    auraGeom, call, voice, speech >>

\* The shape update effect, when one of its dependencies changed.
ShapeEffect ==
    /\ phase = "committed"
    /\ ShapeEffectDeps(props) # effDeps
    /\ \E canvas \in CanvasChoices(props.shape) : \E rnd \in Streams :
         LET tgt == generateTargetPositions(props.shape, props.count, radius, canvas, rnd)
             r   == [refs EXCEPT !.target = NewId(heap)]
         IN  /\ refs' = r
             /\ heap' = Collect(Alloc(heap, tgt), r, geom, memoGeom, auraGeom)
    /\ effDeps' = ShapeEffectDeps(props)
    /\ phase' = "idle"
    /\ UNCHANGED << props, cb, geom, memoGeom, xf, handData, audioRef, audio, fr,
                    frames, changes,
                    auraGeom, call, voice, speech >>

\* No dependency of the effect changed (a colour change): nothing runs.
NoEffect ==
    /\ phase = "committed"
    /\ ShapeEffectDeps(props) = effDeps
    /\ phase' = "idle"
    /\ UNCHANGED << props, cb, effDeps, refs, geom, memoGeom, heap, xf, handData,
                    audioRef, audio, fr, frames, changes,
                    auraGeom, call, voice, speech >>

\* ------------------------------------------------------- collaborators ----
HandUpdate ==
    /\ \E h \in { Neutral,
                   [x |-> 500, y |-> -500, isDetected |-> TRUE,
                    isClenched |-> FALSE, handSpread |-> 1000],
                   Stale } \ {handData} : handData' = h
    /\ UNCHANGED << props, phase, cb, effDeps, refs, geom, memoGeom, heap, xf,
                    audioRef, audio, fr, frames, changes,
                    auraGeom, call, voice, speech >>

\* the application stores a new AudioService in the ref
AudioAttach ==
    /\ audioRef = "null"
    /\ audioRef' = "svc"
    /\ audio' = NewAudioService
    /\ UNCHANGED << props, phase, cb, effDeps, refs, geom, memoGeom, heap, xf,
                    handData, fr, frames, changes,
                    auraGeom, call, voice, speech >>

\* the ways AudioService.initialize can end: everything is set up; getUserMedia
\* rejects and nothing is set; a call after createAnalyser throws
AudioInitialize ==
    /\ ~audio.isRunning
    /\ audioRef = "svc"
    /\ \E outcome \in { [isRunning |-> TRUE, analyser |-> TRUE, dataArray |-> TRUE],
                         audio,
                         [audio EXCEPT !.analyser = TRUE] } : audio' = outcome
    /\ UNCHANGED << props, phase, cb, effDeps, refs, geom, memoGeom, heap, xf,
                    handData, audioRef, fr, frames, changes,
                    auraGeom, call, voice, speech >>

AudioStop ==
    /\ audio.isRunning
    /\ audio' = [audio EXCEPT !.isRunning = FALSE]
    /\ UNCHANGED << props, phase, cb, effDeps, refs, geom, memoGeom, heap, xf,
                    handData, audioRef, fr, frames, changes,
                    auraGeom, call, voice, speech >>

\* ---------------------------------------------------- the frame callback ----
\* what getByteFrequencyData would deliver: anything once an analyser exists
FreqChoices == IF audioRef = "svc" /\ audio.analyser THEN FreqData ELSE {Silence}

\* the scale the frame steers to
\* variant: the hand spread is used whether or not a hand is detected
TargetScaleAnyHand(hand, audioBass) ==
    300 + FMul(hand.handSpread, 1200) + FMul(audioBass, 400)
BaseScale(hand) ==
    IF hand.isDetected THEN 300 + FMul(hand.handSpread, 1200) ELSE One
TargetScale(hand, audioBass) == BaseScale(hand) + FMul(audioBass, 400)
\* variant: the aura does not pulse with the bass
AuraScaleNoBass(targetScale, audioBass) == targetScale
\* const auraScale = targetScale * (1 + audioBass * 0.5)
AuraScale(targetScale, audioBass) == FMul(targetScale, One + FMul(audioBass, 500))
\* const { x: handX, y: handY, isDetected, handSpread } = handData.current
HandLocals(h) == [x |-> h.x, y |-> h.y, isDetected |-> h.isDetected,
                  handSpread |-> h.handSpread]

Frame ==
    /\ frames < MaxFrames
    /\ \E rnd \in Streams : \E data \in FreqChoices :
         LET hand == HandLocals(handData)
             view == [mx |-> mouse.x, my |-> mouse.y, t |-> (frames + 1) * Tick]
             audioData == IF audioRef # "null" THEN getFrequencyData(audio, data)
                          ELSE NoAudio
             audioBass == audioData.bass
             audioTreble == audioData.treble
             targetRotX == IF hand.isDetected THEN FMul(-hand.y, 1500)
                           ELSE FMul(view.my, One)
             targetRotY == IF hand.isDetected THEN FMul(hand.x, 1500)
                           ELSE FMul(view.mx, One) + FMul(view.t, 50)
             rot == [x |-> Lerp(xf.rot.x, targetRotX, rotLerp),
                     y |-> Lerp(xf.rot.y, targetRotY, rotLerp)]
             targetScale == TargetScale(hand, audioBass)
             auraScale == AuraScale(targetScale, audioBass)
             b == PhysicsLoop([positions |-> heap[geom.pos], colors |-> heap[geom.col],
                               vels |-> heap[refs.vel]],
                              heap[refs.target], 0, cb.count, ThreeColor(cb.color),
                              audioTreble, rnd)
         IN  /\ xf' = [rot |-> rot,
                       scale |-> [c \in 1..3 |-> VecLerp(xf.scale[c], targetScale, lerpSpeed)],
                       auraRot |-> [x |-> FMul(rot.x, 800), y |-> FMul(rot.y, 800)],
                       auraScale |-> [c \in 1..3 |->
                                         VecLerp(xf.auraScale[c], auraScale, lerpSpeed)]]
             /\ heap' = [heap EXCEPT ![geom.pos] = b.positions, ![geom.col] = b.colors,
                                     ![refs.vel] = b.vels]
             /\ fr' = [hand |-> hand, bass |-> audioBass, treble |-> audioTreble,
                       targetRotX |-> targetRotX, targetRotY |-> targetRotY,
                       targetScale |-> targetScale, rnd |-> rnd]
    /\ frames' = frames + 1
    /\ UNCHANGED << props, phase, cb, effDeps, refs, geom, memoGeom, handData,
                    audioRef, audio, changes,
                    auraGeom, call, voice, speech >>

\* ------------------------------------------------------ specification ----
\* The state after the first render, commit and effects of the component.
\* the mounted component: first render (m, g), commit, and the first run of
\* the shape update effect (tgt)
Mounted(p, m, a, g, tgt) ==
    /\ props = p
    /\ phase = "idle"
    /\ cb = p
    /\ effDeps = ShapeEffectDeps(p)
    /\ refs = [m.refs EXCEPT !.target = NewId(g.heap)]
    /\ geom = g.geom
    /\ memoGeom = g.geom
    /\ auraGeom = a.geom
    /\ heap = Collect(Alloc(g.heap, tgt), [m.refs EXCEPT !.target = NewId(g.heap)],
                      g.geom, g.geom, a.geom)
    /\ xf = [rot |-> [x |-> 0, y |-> 0], scale |-> <<One, One, One>>,
             auraRot |-> [x |-> 0, y |-> 0], auraScale |-> <<One, One, One>>]
    /\ handData = Neutral
    /\ audioRef = "null"
    /\ audio = NewAudioService
    /\ fr = [hand |-> HandLocals(Neutral), bass |-> 0, treble |-> 0,
             targetRotX |-> 0, targetRotY |-> 0, targetScale |-> One,
             rnd |-> <<500>>]
    /\ frames = 0
    /\ changes = 0
    /\ voice = NewVoiceService
    /\ speech = NoSpeech
MountedAura(p, m, a, tgt) == Mounted(p, m, a, GeometryMemo(a.heap, m.refs, p), tgt)
MountedRefs(p, m, tgt) == MountedAura(p, m, AuraMemo(m.heap), tgt)
FirstProps(shape, count) ==
    [shape |-> shape, color |-> CYAN, count |-> count, charIndex |-> 0, numIndex |-> 0]
Init ==
    \E shape \in {SPHERE} : \E count \in Counts :
    \E canvas \in CanvasChoices(shape) : \E rnd \in Streams :
       /\ MountedRefs(FirstProps(shape, count),
                      InitMemo(<<>>, FirstProps(shape, count), canvas, rnd),
                      generateTargetPositions(shape, count, radius, canvas,
                                              Shift(rnd, 6 * count)))
       /\ call = NoCall

\* the component under changes of its props
NextSelection ==
    \/ ChangeShape
    \/ ChangeColor
    \/ ChangeChar
    \/ ChangeNum
    \/ ChangeCount
    \/ Commit
    \/ ShapeEffect
    \/ NoEffect
    \/ Frame

\* the component under its collaborators' signals
NextSignals ==
    \/ HandUpdate
    \/ AudioAttach
    \/ AudioInitialize
    \/ AudioStop
    \/ Frame

Next == NextSelection \/ NextSignals

Spec == Init /\ [][Next]_vars
SpecSelection == Init /\ [][NextSelection]_vars
SpecSignals == Init /\ [][NextSignals]_vars

\* ------------------------------------------------- functions on their own ----
\* The samplers, the pyramid fold and getFrequencyData called on arguments
\* drawn from the sets below; the component stays as mounted.
programVars == << props, phase, cb, effDeps, refs, geom, memoGeom, heap, xf,
                  handData, audioRef, audio, fr, frames, changes, auraGeom >>

\* a formation that is none of ParticleShape
HEART == "HEART"
SampleCounts == 0..MaxCount
SampleStreams == Streams \cup { <<0>>, <<999>>, <<999, 0, 250>> }
SamplerCall(t, n, r, ci, ni, cv, rd) ==
    [fn |-> "generateTargetPositions", done |-> FALSE, type |-> t, pCount |-> n,
     radius |-> r, charIndex |-> ci, numIndex |-> ni, canvas |-> cv, rnd |-> rd,
     text |-> <<>>, result |-> <<>>]

\* values of Math.random()
Uniforms == {0, 250, 400, 500, 600, 999}

\* contents of the byte frequency array: those of the frames, a ramp, or one
\* bin at full level
Spectra ==
    FreqData \cup { [j \in Bins |-> j] }
      \cup { [j \in Bins |-> IF j = k THEN 255 ELSE 0] :
               k \in {0, 4, 5, 9, 10, 11, 30, 31, 59, 60, 61, 254, 255} }

Sample ==
    /\ call.fn = "generateTargetPositions" /\ ~call.done
    /\ call' = [call EXCEPT
                  !.done = TRUE,
                  !.text = GlyphText(call.type, call.charIndex, call.numIndex),
                  !.result = generateTargetPositions(call.type, call.pCount,
                                                     call.radius, call.canvas, call.rnd)]
    /\ UNCHANGED << programVars, voice, speech >>

Fold ==
    /\ call.fn = "fold" /\ ~call.done
    /\ call' = [call EXCEPT !.done = TRUE,
                            !.result = PyramidFold(call.a, call.b, call.c)]
    /\ UNCHANGED << programVars, voice, speech >>

GetFrequencyData ==
    /\ call.fn = "getFrequencyData" /\ ~call.done
    /\ call' = [call EXCEPT !.done = TRUE,
                            !.result = getFrequencyData(call.svc, call.data)]
    /\ UNCHANGED << programVars, voice, speech >>

InitCalls ==
    /\ MountedRefs(FirstProps(SPHERE, 1),
                   InitMemo(<<>>, FirstProps(SPHERE, 1), NoCtx, <<500>>),
                   generateTargetPositions(SPHERE, 1, radius, NoCtx, <<500>>))
    /\ \/ \E t \in (ParticleShape \cup {HEART}) \ {TEXT, NUMBER} : \E n \in SampleCounts :
          \E r \in {radius, auraRadius} : \E rd \in SampleStreams :
             call = SamplerCall(t, n, r, 0, 0, NoCtx, rd)
       \/ \E n \in SampleCounts : \E ci \in {-1, 0, 25, 26} : \E cv \in Canvases :
          \E rd \in SampleStreams :
             call = SamplerCall(TEXT, n, radius, ci, 0, cv, rd)
       \/ \E n \in SampleCounts : \E ni \in {-1, 0, 9, 10} : \E cv \in Canvases :
          \E rd \in SampleStreams :
             call = SamplerCall(NUMBER, n, radius, 0, ni, cv, rd)
       \/ \E a \in Uniforms : \E b \in Uniforms : \E c \in Uniforms :
             call = [fn |-> "fold", done |-> FALSE, a |-> a, b |-> b, c |-> c,
                     result |-> <<>>]
       \* the service: new, running, stopped, initialization failed half way
       \/ \E sv \in { NewAudioService,
                       [isRunning |-> TRUE, analyser |-> TRUE, dataArray |-> TRUE],
                       [isRunning |-> FALSE, analyser |-> TRUE, dataArray |-> TRUE],
                       [isRunning |-> FALSE, analyser |-> TRUE, dataArray |-> FALSE] } :
          \E d \in Spectra :
             call = [fn |-> "getFrequencyData", done |-> FALSE, svc |-> sv,
                     data |-> d, result |-> NoAudio]
NextCalls == Sample \/ Fold \/ GetFrequencyData
SpecCalls == InitCalls /\ [][NextCalls]_vars

\* ------------------------------------------ VoiceService.processCommand ----
\* A transcript is a sequence of characters, each a string of length one, as
\* onresult leaves it: trimmed, in upper case, the punctuation removed.
LetterChars == <<"A", "B", "C", "D", "E", "F", "G", "H", "I", "J", "K", "L", "M",
                "N", "O", "P", "Q", "R", "S", "T", "U", "V", "W", "X", "Y", "Z">>
Letters == { LetterChars[k] : k \in 1..26 }
DigitChars == <<"0", "1", "2", "3", "4", "5", "6", "7", "8", "9">>
Digits == { DigitChars[k] : k \in 1..10 }
NUMBER_WORD_MAP ==
    << <<"Z", "E", "R", "O">>,
       <<"O", "N", "E">>,
       <<"T", "W", "O">>,
       <<"T", "H", "R", "E", "E">>,
       <<"F", "O", "U", "R">>,
       <<"F", "I", "V", "E">>,
       <<"S", "I", "X">>,
       <<"S", "E", "V", "E", "N">>,
       <<"E", "I", "G", "H", "T">>,
       <<"N", "I", "N", "E">> >>
\* Object.entries(COLOR_PALETTES), in the order of the declaration
COLOR_PALETTES ==
    << [name |-> <<"C", "Y", "A", "N">>,
        hex |-> <<"#", "0", "0", "f", "3", "f", "f">>],
       [name |-> <<"G", "O", "L", "D">>,
        hex |-> <<"#", "f", "f", "a", "a", "0", "0">>],
       [name |-> <<"M", "A", "G", "E", "N", "T", "A">>,
        hex |-> <<"#", "f", "f", "0", "0", "a", "a">>],
       [name |-> <<"L", "I", "M", "E">>,
        hex |-> <<"#", "3", "9", "f", "f", "1", "4">>],
       [name |-> <<"O", "R", "A", "N", "G", "E">>,
        hex |-> <<"#", "f", "f", "4", "5", "0", "0">>],
       [name |-> <<"R", "E", "D">>,
        hex |-> <<"#", "f", "f", "0", "0", "3", "c">>],
       [name |-> <<"W", "H", "I", "T", "E">>,
        hex |-> <<"#", "f", "f", "f", "f", "f", "f">>],
       [name |-> <<"P", "U", "R", "P", "L", "E">>,
        hex |-> <<"#", "a", "8", "5", "5", "f", "7">>] >>
\* the colour aliases, in the order of the else-if chain
ColorAliases ==
    << [name |-> <<"B", "L", "U", "E">>,
        hex |-> <<"#", "0", "0", "f", "3", "f", "f">>],
       [name |-> <<"G", "R", "E", "E", "N">>,
        hex |-> <<"#", "3", "9", "f", "f", "1", "4">>],
       [name |-> <<"Y", "E", "L", "L", "O", "W">>,
        hex |-> <<"#", "f", "f", "a", "a", "0", "0">>],
       [name |-> <<"V", "I", "O", "L", "E", "T">>,
        hex |-> <<"#", "a", "8", "5", "5", "f", "7">>],
       [name |-> <<"P", "I", "N", "K">>,
        hex |-> <<"#", "f", "f", "0", "0", "a", "a">>],
       [name |-> <<"W", "H", "I", "T", "E">>,
        hex |-> <<"#", "f", "f", "f", "f", "f", "f">>],
       [name |-> <<"B", "L", "A", "C", "K">>,
        hex |-> <<"#", "3", "3", "3", "3", "3", "3">>] >>
ResetWords == << <<"R", "E", "S", "E", "T">>,
                 <<"C", "L", "E", "A", "R">>,
                 <<"D", "E", "F", "A", "U", "L", "T">> >>
ShapeTEXT == <<"T", "E", "X", "T">>
ShapeNUMBER == <<"N", "U", "M", "B", "E", "R">>
\* Object.values(ParticleShape)
ShapeValues ==
    << <<"S", "P", "H", "E", "R", "E">>,
       <<"C", "U", "B", "E">>,
       <<"T", "O", "R", "U", "S">>,
       <<"G", "A", "L", "A", "X", "Y">>,
       <<"D", "N", "A">>,
       <<"S", "A", "T", "U", "R", "N">>,
       <<"P", "Y", "R", "A", "M", "I", "D">>,
       <<"B", "I", "G", "_", "B", "A", "N", "G">>,
       <<"T", "E", "X", "T">>,
       <<"N", "U", "M", "B", "E", "R">> >>
\* text.includes(s)
Includes(text, s) ==
    \E p \in 1..(Len(text) - Len(s) + 1) : SubSeq(text, p, p + Len(s) - 1) = s
IncludesAny(text, words) == \E k \in 1..Len(words) : Includes(text, words[k])
IsSpace(text, q) == q \in 1..Len(text) /\ text[q] = " "
\* the class \w of a regular expression, on upper-case text
IsWord(text, q) ==
    q \in 1..Len(text) /\ text[q] \in Letters \cup Digits \cup {"_"}
\* \s+ from q on: the position after the run of white space
RECURSIVE SkipSpace(_, _)
SkipSpace(text, q) == IF IsSpace(text, q) THEN SkipSpace(text, q + 1) ELSE q
\* \w+ from q on: the position after the run of word characters
RECURSIVE WordEnd(_, _)
WordEnd(text, q) == IF IsWord(text, q) THEN WordEnd(text, q + 1) ELSE q

\* MODE_PREFIXES, then COLOR_PREFIXES
combinedPrefixes ==
    << <<"L", "E", "T", "T", "E", "R">>,
       <<"C", "H", "A", "R">>,
       <<"C", "H", "A", "R", "A", "C", "T", "E", "R">>,
       <<"T", "E", "X", "T">>,
       <<"A", "L", "P", "H", "A", "B", "E", "T">>,
       <<"T", "Y", "P", "E">>,
       <<"W", "R", "I", "T", "E">>,
       <<"S", "H", "O", "W">>,
       <<"D", "I", "S", "P", "L", "A", "Y">>,
       <<"N", "U", "M", "B", "E", "R">>,
       <<"N", "U", "M">>,
       <<"D", "I", "G", "I", "T">>,
       <<"C", "O", "U", "N", "T">> >>
    \o << <<"R", "E", "D">>,
       <<"B", "L", "U", "E">>,
       <<"G", "R", "E", "E", "N">>,
       <<"C", "Y", "A", "N">>,
       <<"M", "A", "G", "E", "N", "T", "A">>,
       <<"Y", "E", "L", "L", "O", "W">>,
       <<"W", "H", "I", "T", "E">>,
       <<"O", "R", "A", "N", "G", "E">>,
       <<"P", "U", "R", "P", "L", "E">>,
       <<"G", "O", "L", "D">>,
       <<"P", "I", "N", "K">>,
       <<"V", "I", "O", "L", "E", "T">>,
       <<"B", "L", "A", "C", "K">> >>
\* \b(prefixes)\s+ matched at p: the positions where the value may begin
ValueStarts(text, p) ==
    IF IsWord(text, p - 1) THEN {}
    ELSE { SkipSpace(text, p + Len(combinedPrefixes[k])) :
              k \in { j \in 1..Len(combinedPrefixes) :
                         /\ p + Len(combinedPrefixes[j]) - 1 <= Len(text)
                         /\ SubSeq(text, p, p + Len(combinedPrefixes[j]) - 1)
                               = combinedPrefixes[j]
                         /\ IsSpace(text, p + Len(combinedPrefixes[j])) } }
NoMatch == [matched |-> FALSE, value |-> <<>>]
\* the least position of a non-empty set of positions
First(positions) == CHOOSE p \in positions : \A q \in positions : p <= q

\* text.match(letterRegex): \b(prefixes)\s+([A-Z])\b, the leftmost match
LetterStarts(text, p) ==
    { r \in ValueStarts(text, p) :
         r \in 1..Len(text) /\ text[r] \in Letters /\ ~IsWord(text, r + 1) }
letterMatch(text) ==
    IF \A p \in 1..Len(text) : LetterStarts(text, p) = {} THEN NoMatch
    ELSE [matched |-> TRUE,
          value |-> << text[First(LetterStarts(text,
                          First({ p \in 1..Len(text) : LetterStarts(text, p) # {} })))] >>]

\* text.match(numberRegex): \b(prefixes)\s+(\w+)\b, the leftmost match
NumberStarts(text, p) == { r \in ValueStarts(text, p) : IsWord(text, r) }
NumberStart(text) ==
    First(NumberStarts(text, First({ p \in 1..Len(text) : NumberStarts(text, p) # {} })))
numberMatch(text) ==
    IF \A p \in 1..Len(text) : NumberStarts(text, p) = {} THEN NoMatch
    ELSE [matched |-> TRUE,
          value |-> SubSeq(text, NumberStart(text), WordEnd(text, NumberStart(text)) - 1)]

RECURSIVE ParseDigits(_, _, _)
ParseDigits(s, i, acc) ==
    IF i <= Len(s) /\ s[i] \in Digits
    THEN ParseDigits(s, i + 1, 10 * acc + (CHOOSE k \in 1..10 : DigitChars[k] = s[i]) - 1)
    ELSE acc
\* parseInt of a run of word characters: its leading digits, NaN without any
parseInt(s) == IF Len(s) > 0 /\ s[1] \in Digits THEN ParseDigits(s, 1, 0) ELSE NaN
\* numVal after the lookup of the number words
NumVal(valStr) ==
    IF IsNaN(parseInt(valStr)) /\ \E k \in 1..10 : NUMBER_WORD_MAP[k] = valStr
    THEN (CHOOSE k \in 1..10 : NUMBER_WORD_MAP[k] = valStr) - 1
    ELSE parseInt(valStr)
\* n.toString() of an integer n >= 0
RECURSIVE NumToString(_)
NumToString(n) == IF n < 10 THEN << DigitChars[n + 1] >>
               ELSE NumToString(n \div 10) \o << DigitChars[(n % 10) + 1] >>
\* char.charCodeAt(0) of an upper-case letter
CharCodeAt(c) == 64 + (CHOOSE k \in 1..26 : LetterChars[k] = c)

Command(type, value) == [type |-> type, value |-> value]

\* 3. the first palette name the text includes, else the first alias
FirstIncluded(text, table) ==
    table[First({ k \in 1..Len(table) : Includes(text, table[k].name) })]
ColorCommands(text) ==
    IF \E k \in 1..Len(COLOR_PALETTES) : Includes(text, COLOR_PALETTES[k].name)
    THEN << Command("COLOR", FirstIncluded(text, COLOR_PALETTES).hex) >>
    ELSE IF \E k \in 1..Len(ColorAliases) : Includes(text, ColorAliases[k].name)
    THEN << Command("COLOR", FirstIncluded(text, ColorAliases).hex) >>
    ELSE <<>>

\* 4. the letter command: the index of the matched letter, A = 0
LetterCommands(lm) ==
    IF lm.matched /\ CharCodeAt(lm.value[1]) - 65 >= 0 /\ CharCodeAt(lm.value[1]) - 65 <= 25
    THEN << Command("SET_CHAR", NumToString(CharCodeAt(lm.value[1]) - 65)) >>
    ELSE <<>>
\* the number command
NumberCommands(nm) ==
    IF nm.matched /\ ~IsNaN(NumVal(nm.value)) /\ NumVal(nm.value) >= 0
                  /\ NumVal(nm.value) <= 9
    THEN << Command("SET_NUM", NumToString(NumVal(nm.value))) >>
    ELSE <<>>
\* 5. the shapes the loop does not pass over
ShapeHits(text, shapes, lm, nm) ==
    { k \in 1..Len(shapes) :
         /\ \/ Includes(text, shapes[k])
            \/ shapes[k] = <<"B", "I", "G", "_", "B", "A", "N", "G">>
               /\ Includes(text, <<"B", "I", "G", " ", "B", "A", "N", "G">>)
         /\ ~(shapes[k] = ShapeTEXT /\ lm.matched)
         /\ ~(shapes[k] = ShapeNUMBER /\ nm.matched) }
ShapeCommands(text, shapes, lm, nm) ==
    IF ShapeHits(text, shapes, lm, nm) = {} THEN <<>>
    ELSE << Command("SHAPE", shapes[First(ShapeHits(text, shapes, lm, nm))]) >>

\* the calls of onCommandMatch that processCommand(text) makes, in order
processCommand(text, shapes) ==
    IF IncludesAny(text, ResetWords) THEN << Command("RESET", <<>>) >>
    ELSE (\* 2. the snapshot words
          IF IncludesAny(text, << <<"S", "A", "V", "E">>,
                                  <<"S", "N", "A", "P", "S", "H", "O", "T">>,
                                  <<"C", "A", "P", "T", "U", "R", "E">>,
                                  <<"D", "O", "W", "N", "L", "O", "A", "D">>,
                                  <<"P", "I", "C", "T", "U", "R", "E">> >>)
          THEN << Command("SNAPSHOT", <<>>) >> ELSE <<>>)
         \o ColorCommands(text)
         \o LetterCommands(letterMatch(text)) \o NumberCommands(numberMatch(text))
         \o ShapeCommands(text, shapes, letterMatch(text), numberMatch(text))

\* the words of the transcripts, and the transcripts of up to MaxWords words
Vocabulary ==
    { <<"N", "U", "M", "B", "E", "R">>,
      <<"S", "H", "O", "W">>,
      <<"B", "L", "U", "E">>,
      <<"T", "E", "X", "T">>,
      <<"5">>,
      <<"1", "2">>,
      <<"S", "E", "V", "E", "N">>,
      <<"A">>,
      <<"C", "U", "B", "E">>,
      <<"R", "E", "S", "E", "T">>,
      <<"B", "I", "G">>,
      <<"B", "A", "N", "G">> }
RECURSIVE Sentences(_)
Sentences(n) ==
    IF n = 1 THEN Vocabulary
    ELSE Sentences(n - 1)
         \cup { s \o <<" ">> \o w : s \in Sentences(n - 1), w \in Vocabulary }
ProcessCommand ==
    /\ call.fn = "processCommand" /\ ~call.done
    /\ call' = [call EXCEPT !.done = TRUE,
                            !.result = processCommand(call.text, call.shapes)]
    /\ UNCHANGED << programVars, voice, speech >>
InitCommands ==
    /\ MountedRefs(FirstProps(SPHERE, 1),
                   InitMemo(<<>>, FirstProps(SPHERE, 1), NoCtx, <<500>>),
                   generateTargetPositions(SPHERE, 1, radius, NoCtx, <<500>>))
    /\ \E text \in Sentences(MaxWords) :
       \E shapes \in {ShapeValues,
                       [k \in 1..Len(ShapeValues) |->
                           ShapeValues[Len(ShapeValues) + 1 - k]]} :
          call = [fn |-> "processCommand", done |-> FALSE, text |-> text,
                  shapes |-> shapes, result |-> <<>>]
SpecCommands == InitCommands /\ [][ProcessCommand]_vars

\* ------------------------------ VoiceService: the recognition session ----
\* The methods of the service and the handlers it attaches to the recognition
\* object; each runs to completion.  The browser dispatches the start event
\* some time after it accepted start(), and the end event when the session
\* is over, whether stop() was called or not.

\* a step that calls no method of recognition
NoInvocation(sp, ev) == [sp EXCEPT !.event = ev, !.invoked = "none", !.busy = FALSE]
\* this.recognition.start(): a session begins unless one is under way, in
\* which case the call throws InvalidStateError, which every caller catches
RecognitionStart(sp, ev) ==
    [sp EXCEPT !.session = IF sp.session = "idle" THEN "starting" ELSE @,
               !.event = ev, !.invoked = "start", !.busy = sp.session # "idle"]
\* if (this.restartTimer) clearTimeout(this.restartTimer)
ClearTimeout(sp, id) == [sp EXCEPT !.timers = @ \ {id}]
\* window.setTimeout: an id that no pending timer has (the id of a timer
\* that has fired is used again)
NewTimer(timers) ==
    CHOOSE id \in 1..(Cardinality(timers) + 1) :
       id \notin timers /\ \A j \in 1..(id - 1) : j \in timers

\* stop(): the fields, and the calls on the browser (after
\* this.recognition.stop() the session, if any, ends with a later end event)
StopFields(v) == [v EXCEPT !.shouldBeRunning = FALSE, !.isListening = FALSE]
StopCalls(v, sp, ev) ==
    IF v.recognition
    THEN [ClearTimeout(sp, v.restartTimer)
             EXCEPT !.event = ev, !.invoked = "stop", !.busy = sp.session # "idle"]
    ELSE NoInvocation(ClearTimeout(sp, v.restartTimer), ev)

\* variant: the timer callback does not look at shouldBeRunning
RestartGuardAlways(v) == v.recognition
\* the test of the restart timer's callback
RestartGuard(v) == v.recognition /\ v.shouldBeRunning

\* initialize(): the recognition object, if the browser has the API
Initialize ==
    /\ ~voice.recognition
    /\ \E supported \in BOOLEAN :
          voice' = [voice EXCEPT !.recognition = supported]
    /\ speech' = NoInvocation(speech, "initialize")
    /\ UNCHANGED << programVars, call >>

\* start(), called by the application
Start ==
    /\ speech.calls < MaxCalls
    /\ IF voice.recognition /\ ~voice.isListening
       THEN /\ voice' = [voice EXCEPT !.shouldBeRunning = TRUE]
            /\ speech' = [RecognitionStart(speech, "start")
                             EXCEPT !.wanted = TRUE, !.calls = @ + 1]
       ELSE /\ voice' = voice
            /\ speech' = [NoInvocation(speech, "start")
                             EXCEPT !.wanted = TRUE, !.calls = @ + 1]
    /\ UNCHANGED << programVars, call >>

\* stop(), called by the application
Stop ==
    /\ speech.calls < MaxCalls
    /\ voice' = StopFields(voice)
    /\ speech' = [StopCalls(voice, speech, "stop")
                     EXCEPT !.wanted = FALSE, !.calls = @ + 1]
    /\ UNCHANGED << programVars, call >>

\* recognition.onstart
OnStart ==
    /\ speech.session = "starting"
    /\ voice' = [voice EXCEPT !.isListening = TRUE]
    /\ speech' = [NoInvocation(speech, "onstart") EXCEPT !.session = "active"]
    /\ UNCHANGED << programVars, call >>

\* recognition.onend: the restart timer is set if the service should run
OnEnd ==
    /\ speech.session # "idle"
    /\ IF voice.shouldBeRunning
       THEN /\ voice' = [voice EXCEPT !.isListening = FALSE,
                                      !.restartTimer = NewTimer(speech.timers)]
            /\ speech' = [NoInvocation(speech, "onend")
                             EXCEPT !.session = "idle",
                                    !.timers = @ \cup {NewTimer(speech.timers)}]
       ELSE /\ voice' = [voice EXCEPT !.isListening = FALSE]
            /\ speech' = [NoInvocation(speech, "onend") EXCEPT !.session = "idle"]
    /\ UNCHANGED << programVars, call >>

\* recognition.onerror: 'not-allowed' stops the service
OnError ==
    /\ speech.session # "idle"
    /\ \E error \in {"no-speech", "network", "not-allowed"} :
          IF error = "not-allowed"
          THEN /\ voice' = StopFields(voice)
               /\ speech' = [StopCalls(voice, speech, "onerror")
                                EXCEPT !.wanted = FALSE]
          ELSE /\ voice' = voice
               /\ speech' = NoInvocation(speech, "onerror")
    /\ UNCHANGED << programVars, call >>

\* the callback of a restart timer, 100 ms after onend set it
TimerFire ==
    /\ \E id \in speech.timers :
          speech' = IF RestartGuard(voice)
                    THEN RecognitionStart(ClearTimeout(speech, id), "timer")
                    ELSE NoInvocation(ClearTimeout(speech, id), "timer")
    /\ voice' = voice
    /\ UNCHANGED << programVars, call >>

InitVoice ==
    /\ MountedRefs(FirstProps(SPHERE, 1),
                   InitMemo(<<>>, FirstProps(SPHERE, 1), NoCtx, <<500>>),
                   generateTargetPositions(SPHERE, 1, radius, NoCtx, <<500>>))
    /\ call = NoCall
NextVoice ==
    \/ Initialize
    \/ Start
    \/ Stop
    \/ OnStart
    \/ OnEnd
    \/ OnError
    \/ TimerFire
SpecVoice == InitVoice /\ [][NextVoice]_vars
\* the browser runs the callback of every timer that stays pending
SpecVoiceFair == SpecVoice /\ WF_vars(TimerFire)

\* ------------------------------------------------------------ properties ----
FrameStep == frames' = frames + 1
\* the four arrays a frame callback would use are as long as its loop needs
BuffersAgree ==
    \A id \in {geom.pos, geom.col, refs.target, refs.vel} :
        Len(heap[id]) = 3 * cb.count
Indices == 1..(3 * cb.count)
Particles == 0..(cb.count - 1)
AxesOf(i) == {3 * i + 1, 3 * i + 2, 3 * i + 3}
SomeVelocity == \E idx \in DOMAIN heap[refs.vel] : heap[refs.vel][idx] # 0
ResizePending == phase = "rendered" /\ props.count # cb.count

\* C1: a step that is not a frame and keeps the particle count (a change of
\* shape, letter, digit or colour, its commit and its effect) leaves the
\* current positions and the velocities in the same arrays with the same
\* values and keeps the geometry; when it replaces the target, the new target
\* is a new array of the same length.
C1_RetargetKeepsMotion ==
    [][ (frames' = frames /\ props'.count = props.count) =>
          /\ refs'.current = refs.current
          /\ refs'.vel = refs.vel
          /\ memoGeom' = memoGeom
          /\ heap'[refs'.current] = heap[refs.current]
          /\ heap'[refs'.vel] = heap[refs.vel]
          /\ refs'.target # refs.target =>
                /\ refs'.target \notin DOMAIN heap
                /\ Len(heap'[refs'.target]) = Len(heap[refs.target]) ]_vars
\* a shape change went through its effect while particles were moving
C1_Retargeted ==
    /\ phase = "idle" /\ props.shape # SPHERE /\ effDeps[1] = props.shape
    /\ frames >= 1 /\ SomeVelocity

\* C2: every run of the frame callback finds position, colour, target and
\* velocity arrays of 3*count entries, count being the count of its loop.
C2_FrameSeesWholeBuffers == [][ FrameStep => BuffersAgree ]_vars

StreamShifts == { Shift(r, n) : r \in Streams, n \in 0..2 }
SampleSet(type, n) ==
    { generateTargetPositions(type, n, radius, c, r) :
         c \in CanvasChoices(type), r \in StreamShifts }

\* C4 as stated: after a resize both current and target positions are
\* samples of the selected shape.
C4_BothFromSelectedShape ==
    ResizePending =>
        /\ heap[refs.current] \in SampleSet(props.shape, props.count)
        /\ heap[refs.target] \in SampleSet(props.shape, props.count)
\* C4: after a resize the target positions are a sample of the selected
\* shape and the current positions are a sample of the explosion (BIG_BANG),
\* whatever the selected shape.
C4_ExplosionThenShape ==
    ResizePending =>
        /\ heap[refs.current] \in SampleSet(BIG_BANG, props.count)
        /\ heap[refs.target] \in SampleSet(props.shape, props.count)
\* a resize is rendered and the explosion differs from the selected shape
C4_ResizedApart ==
    /\ ResizePending
    /\ heap[refs.current] \notin SampleSet(props.shape, props.count)

\* C5: in a frame, for every axis of every particle, with p, v, t the
\* position, velocity and target before the frame and r the random draw:
\* v' = (v + (t - p)*0.03 + (r - 0.5)*(0.02 + treble*0.1)) * 0.92 and
\* p' = p + v'.
C5_UpdateOrder ==
    [][ FrameStep =>
          LET na == 20 + FMul(fr'.treble, 100)
          IN  \A idx \in Indices :
                LET accel == FMul(heap[refs.target][idx] - heap[geom.pos][idx], 30)
                    noise == FMul(Rand(fr'.rnd, idx - 1) - 500, na)
                    v == FMul(heap[refs.vel][idx] + accel + noise, 920)
                IN  /\ heap'[refs.vel][idx] = v
                    /\ heap'[geom.pos][idx] = heap[geom.pos][idx] + v ]_vars
\* a frame ran with treble in the jitter and left particles moving
C5_Stepped == frames >= 1 /\ fr.treble > 0 /\ fr.rnd # <<500>> /\ SomeVelocity

\* growth of the squared distance of particle i to its target over a step,
\* as a sum of (d' - d)(d' + d) over the axes
DistGrowth(i) ==
    LET d(idx) == heap[refs.target][idx] - heap[geom.pos][idx]
        e(idx) == heap[refs.target][idx] - heap'[geom.pos][idx]
        g(idx) == (e(idx) - d(idx)) * (e(idx) + d(idx))
    IN  g(3 * i + 1) + g(3 * i + 2) + g(3 * i + 3)
ZeroNoise == fr'.rnd = <<500>>

\* C6 as stated: a frame without noise leaves no particle farther from its
\* target than it was, whatever its position and velocity.
C6_NeverFarther ==
    [][ (FrameStep /\ BuffersAgree /\ ZeroNoise) =>
          \A i \in Particles : DistGrowth(i) <= 0 ]_vars
\* C6: a frame without noise leaves a particle that had zero velocity no
\* farther from its target than it was.
C6_NotFartherFromStandstill ==
    [][ (FrameStep /\ BuffersAgree /\ ZeroNoise) =>
          \A i \in Particles :
             (\A idx \in AxesOf(i) : heap[refs.vel][idx] = 0) => DistGrowth(i) <= 0 ]_vars
\* the first frame, without noise, moved a particle from standstill
C6_PulledIn ==
    /\ frames = 1 /\ changes = 0 /\ fr.rnd = <<500>> /\ SomeVelocity

\* every particle is on its target with zero velocity
AtRest ==
    /\ BuffersAgree
    /\ heap[geom.pos] = heap[refs.target]
    /\ \A idx \in Indices : heap[refs.vel][idx] = 0
SilentFrame == fr'.bass = 0 /\ fr'.treble = 0

\* C7 as stated: a frame from rest with all audio bands zero leaves every
\* velocity zero and every position unchanged.
C7_RestIsFixed ==
    [][ (FrameStep /\ AtRest /\ SilentFrame) =>
          /\ heap'[refs.vel] = heap[refs.vel]
          /\ heap'[geom.pos] = heap[geom.pos] ]_vars
\* C7: a frame from rest with all audio bands zero leaves every velocity at
\* 0.92 * (r - 0.5) * 0.02, r being the random draw, which is at most 0.01
\* in magnitude, and moves every position by that velocity.
C7_RestJitters ==
    [][ (FrameStep /\ AtRest /\ SilentFrame) =>
          \A idx \in Indices :
             LET v == FMul(FMul(Rand(fr'.rnd, idx - 1) - 500, 20), 920)
             IN  /\ heap'[refs.vel][idx] = v
                 /\ Abs(v) <= 10
                 /\ heap'[geom.pos][idx] = heap[geom.pos][idx] + v ]_vars
\* a silent frame from rest left particles displaced by their velocity
C7_Nudged ==
    /\ frames = 1 /\ BuffersAgree /\ fr.bass = 0 /\ fr.treble = 0
    /\ \A idx \in Indices :
          /\ heap[geom.pos][idx] - heap[refs.target][idx] = heap[refs.vel][idx]
          /\ Abs(heap[refs.vel][idx]) <= 10
    /\ SomeVelocity

\* the audio service is missing, was never initialized, failed or stopped
AudioMissing == audioRef = "null" \/ ~audio.isRunning
\* the velocity an axis gets from attraction and damping alone
Undisturbed(idx) ==
    FMul(heap[refs.vel][idx]
         + FMul(heap[refs.target][idx] - heap[geom.pos][idx], 30), 920)

\* C8 as stated: a frame without audio uses bass = treble = 0 and applies
\* no jitter to any particle.
C8_NoJitterWithoutAudio ==
    [][ (FrameStep /\ AudioMissing) =>
          /\ fr'.bass = 0 /\ fr'.treble = 0
          /\ \A idx \in Indices : heap'[refs.vel][idx] = Undisturbed(idx) ]_vars
\* C8: a frame without audio completes with bass = treble = 0: the scale
\* target has no bass term, the jitter is the base jitter (r - 0.5) * 0.02
\* alone, and the heat is min(3 * speed, 1).
C8_SilenceWithoutAudio ==
    [][ (FrameStep /\ AudioMissing) =>
          /\ fr'.bass = 0 /\ fr'.treble = 0
          /\ fr'.targetScale = (IF handData.isDetected
                                THEN 300 + FMul(handData.handSpread, 1200) ELSE One)
          /\ \A idx \in Indices :
                heap'[refs.vel][idx] =
                   FMul(heap[refs.vel][idx]
                        + FMul(heap[refs.target][idx] - heap[geom.pos][idx], 30)
                        + FMul(Rand(fr'.rnd, idx - 1) - 500, 20), 920)
          /\ \A i \in Particles :
                LET w == heap'[refs.vel]
                    sp == ISqrt(w[3*i+1] * w[3*i+1] + w[3*i+2] * w[3*i+2]
                                + w[3*i+3] * w[3*i+3])
                    t == IF 3 * sp < One THEN 3 * sp ELSE One
                IN  \A c \in 1..3 :
                      heap'[geom.col][3*i+c] =
                         Lerp(ThreeColor(cb.color)[c], 1000, t) ]_vars
\* a frame ran on a stopped service whose analyser still delivers sound
C8_StoppedAndJittered ==
    /\ frames >= 1 /\ audioRef = "svc" /\ audio.analyser /\ ~audio.isRunning
    /\ fr.bass = 0 /\ fr.treble = 0 /\ fr.rnd # <<500>> /\ SomeVelocity

\* C9: a frame with treble = 0 writes, for every particle whose velocity
\* after the update is zero on all three axes, the base colour of the
\* callback in all three channels.
C9_ColdParticleHasBaseColor ==
    [][ (FrameStep /\ fr'.treble = 0) =>
          \A i \in Particles :
             (\A idx \in AxesOf(i) : Get(heap'[refs.vel], idx - 1) = 0) =>
                \A c \in 1..3 :
                   Get(heap'[geom.col], 3 * i + c - 1) = ThreeColor(cb.color)[c] ]_vars
\* a frame left a particle without velocity, in its base colour
C9_Cold ==
    /\ frames >= 1 /\ fr.treble = 0 /\ BuffersAgree
    /\ \E i \in Particles :
          /\ \A idx \in AxesOf(i) : heap[refs.vel][idx] = 0
          /\ \A c \in 1..3 : heap[geom.col][3 * i + c] = ThreeColor(cb.color)[c]

\* C10: a frame with isDetected false steers to scale 1.0 + bass * 0.4,
\* rotation x = pointer y * 1.0 and rotation y = pointer x * 1.0 +
\* elapsed time * 0.05, whatever the x, y, handSpread and isClenched left
\* in the hand data.
C10_UndetectedIsNeutral ==
    [][ (FrameStep /\ ~handData.isDetected) =>
          /\ fr'.targetScale = One + FMul(fr'.bass, 400)
          /\ fr'.targetRotX = mouse.y
          /\ fr'.targetRotY = mouse.x + FMul((frames + 1) * Tick, 50) ]_vars
\* a frame ran with stale hand values and bass
C10_StaleIgnored ==
    /\ frames >= 1 /\ fr.hand = HandLocals(Stale) /\ fr.bass > 0
    /\ fr.targetScale = One + FMul(fr.bass, 400)

\* the value a smoothing by 0.08 moves x to, on its way to v
Smoothed(x, v) == x + FMul(v - x, 80)

\* C11 as stated: a frame moves the aura's rotation toward 80% of the core's
\* rotation and the aura's scale toward the core's scale times
\* (1 + bass * 0.5), both by the smoothing factor 0.08; the core's rotation
\* and scale are read before or after their own update.
C11_AuraSmoothedToCore ==
    [][ FrameStep =>
          /\ \/ xf'.auraRot.x = Smoothed(xf.auraRot.x, FMul(xf'.rot.x, 800))
             \/ xf'.auraRot.x = Smoothed(xf.auraRot.x, FMul(xf.rot.x, 800))
          /\ \/ xf'.auraScale[1] =
                   Smoothed(xf.auraScale[1], FMul(xf'.scale[1], One + FMul(fr'.bass, 500)))
             \/ xf'.auraScale[1] =
                   Smoothed(xf.auraScale[1], FMul(xf.scale[1], One + FMul(fr'.bass, 500))) ]_vars
\* C11: a frame sets the aura's rotation to 80% of the core's updated
\* rotation, without smoothing, and moves the aura's scale by the smoothing
\* factor 0.08 toward the core's scale target (base scale + bass * 0.4)
\* times (1 + bass * 0.5).
C11_AuraFollows ==
    [][ FrameStep =>
          /\ xf'.auraRot.x = FMul(xf'.rot.x, 800)
          /\ xf'.auraRot.y = FMul(xf'.rot.y, 800)
          /\ \A c \in 1..3 :
                xf'.auraScale[c] =
                   Smoothed(xf.auraScale[c],
                            FMul(fr'.targetScale, One + FMul(fr'.bass, 500))) ]_vars
\* a frame with bass turned the aura and left it larger than the core
C11_AuraPulsed ==
    /\ frames >= 1 /\ fr.bass > 0
    /\ xf.auraRot.x # 0 /\ xf.auraRot.y # 0
    /\ xf.auraScale[1] > xf.scale[1]

\* the aura's positions buffer
AuraPositions == heap[auraGeom.pos]
\* the squared distance of point i of the aura from the origin, in units
AuraNorm2(i) ==
    LET q(idx) == AuraPositions[idx] \div 10
    IN  q(3 * i + 1) * q(3 * i + 1) + q(3 * i + 2) * q(3 * i + 2)
        + q(3 * i + 3) * q(3 * i + 3)
\* C12: the aura's positions are one buffer of 3 * auraCount numbers, the
\* sphere sample of radius 12 (every point within 2% of that distance from
\* the origin), and no step - frame, change of shape, colour, letter, digit
\* or particle count, commit or effect - replaces the buffer or changes a
\* number in it.
C12_AuraStatic ==
    [][ /\ auraGeom' = auraGeom
        /\ heap'[auraGeom'.pos] = AuraPositions
        /\ AuraPositions = generateTargetPositions(SPHERE, auraCount, 12000, NoCtx, <<0>>)
        /\ Len(AuraPositions) = 3 * auraCount
        /\ \A i \in 0..(auraCount - 1) :
              /\ AuraNorm2(i) >= 1176 * 1176
              /\ AuraNorm2(i) <= 1224 * 1224 ]_vars
\* a resize was rendered and frames turned the aura
C12_AuraKeptThroughResize ==
    /\ ResizePending /\ frames >= 1
    /\ xf.auraRot.x # 0
    /\ auraGeom.pos \in DOMAIN heap

\* a call of generateTargetPositions has returned
Sampled == call.fn = "generateTargetPositions" /\ call.done

\* C13: generateTargetPositions returns, for every formation (the glyph
\* formations and an unknown one included) and every count >= 0, an array of
\* 3 * count numbers none of which is NaN or infinite (NaN stands for every
\* value that is not finite); it is empty for count = 0.
C13_CountFinitePositions ==
    Sampled =>
        /\ Len(call.result) = 3 * call.pCount
        /\ \A idx \in 1..Len(call.result) :
              ~IsNaN(call.result[idx])
        /\ call.pCount = 0 => call.result = <<>>
\* the ringed sphere was sampled with planet and ring particles
C13_SaturnSampled ==
    /\ Sampled /\ call.type = SATURN /\ call.pCount = MaxCount
    /\ Len(call.result) = 3 * MaxCount
    /\ \E idx \in 1..Len(call.result) : call.result[idx] # 0

\* the three folds of the pyramid sampler have run on uniforms a, b, c
Folded == call.fn = "fold" /\ call.done
\* the fourth barycentric weight, computed after the folds
FourthWeight(w) == One - w[1] - w[2] - w[3]

\* C14: for every triple of uniforms in [0, 1) the folded weights a, b, c and
\* d = 1 - a - b - c are all >= 0 and sum to 1, so that the sampled point is
\* a convex combination of the four vertices of the tetrahedron.
C14_FoldIsConvex ==
    Folded =>
        /\ \A j \in 1..3 : call.result[j] >= 0
        /\ FourthWeight(call.result) >= 0
        /\ call.result[1] + call.result[2] + call.result[3]
              + FourthWeight(call.result) = One

\* a glyph formation was sampled
GlyphSampled == Sampled /\ call.type \in {TEXT, NUMBER}
\* the raster gave nothing to sample from: no 2D context, or no foreground pixel
NoPixels(canvas) == IF canvas = NoCtx THEN TRUE ELSE Len(canvas) = 0

\* C15: when the rasterization yields no foreground pixel, or no 2D context
\* is available, generateTextPositions returns an array of 3 * count entries
\* that are all zero.
C15_BlankGlyphIsAllZero ==
    GlyphSampled /\ NoPixels(call.canvas) =>
        /\ Len(call.result) = 3 * call.pCount
        /\ \A idx \in 1..Len(call.result) : call.result[idx] = 0
\* a blank raster and a missing context were sampled for a positive count
C15_BlankSampled ==
    /\ GlyphSampled /\ NoPixels(call.canvas) /\ call.pCount = MaxCount
    /\ call.result = [idx \in 1..(3 * MaxCount) |-> 0]

\* a formation outside the known shapes was sampled
UnknownSampled == Sampled /\ call.type \notin ParticleShape
\* the distance from the origin of point i of the returned array
ResultNorm(i) ==
    ISqrt(call.result[3 * i + 1] * call.result[3 * i + 1]
          + call.result[3 * i + 2] * call.result[3 * i + 2]
          + call.result[3 * i + 3] * call.result[3 * i + 3])
\* r = U * radius * 2 for the first uniform U drawn for point i
ExplosionDistance(i) == FMul(Rand(call.rnd, 3 * i), call.radius) * 2

\* C16: a formation identifier that is not one of the known shapes is sampled
\* with the explosion distribution: the array is the one BIG_BANG gives for
\* the same count, radius and random draws, and every point lies at distance
\* r = U * radius * 2 from the origin (up to the rounding of sin and cos).
C16_UnknownIsExplosion ==
    UnknownSampled =>
        /\ call.result = generateTargetPositions(BIG_BANG, call.pCount, call.radius,
                                                 call.canvas, call.rnd)
        /\ Len(call.result) = 3 * call.pCount
        /\ \A i \in 0..(call.pCount - 1) :
              Abs(ResultNorm(i) - ExplosionDistance(i))
                 <= ExplosionDistance(i) \div 50 + 2
\* an unknown formation was sampled into points away from the origin
C16_UnknownScattered ==
    /\ UnknownSampled /\ call.pCount = MaxCount
    /\ \A i \in 0..(MaxCount - 1) : ResultNorm(i) > call.radius \div 2

\* the character codes of 'A'..'Z' and of '0'..'9'
LetterCodes == 65..90
DigitCodes == 48..57

\* C17: TEXT rasterizes the letter with code 65 + charIndex and NUMBER the
\* digit numIndex; an index outside 0..25 (0..9) is rejected or clamped
\* before the glyph is generated, so that the rasterized text is always one
\* symbol among A..Z (0..9).
C17_OnlyLettersAndDigits ==
    GlyphSampled =>
        /\ Len(call.text) = 1
        /\ call.type = TEXT => call.text[1] \in LetterCodes
        /\ call.type = NUMBER => call.text[1] \in DigitCodes
        /\ call.type = TEXT /\ call.charIndex \in 0..25
              => call.text[1] = 65 + call.charIndex
        /\ call.type = NUMBER /\ call.numIndex \in 0..9
              => call.text[1] = 48 + call.numIndex

\* the bands one call of getFrequencyData can return at the top of a frame
FrameBands ==
    { IF audioRef # "null" THEN getFrequencyData(audio, data) ELSE NoAudio :
         data \in FreqChoices }

\* C18: within one frame step the hand pose and the audio bands are each read
\* once, before the loop over the particles: the step works on the pose the
\* hand producer had published when it began and on the bands of one reading,
\* the scale targets of core and aura use that one bass, and every particle
\* of the frame is integrated and coloured with that one treble; the step
\* itself leaves the producers' values alone.
C18_OneSnapshotPerFrame ==
    [][ FrameStep =>
          /\ fr'.hand = HandLocals(handData)
          /\ handData' = handData /\ audio' = audio /\ audioRef' = audioRef
          /\ \E bands \in FrameBands :
                fr'.bass = bands.bass /\ fr'.treble = bands.treble
          /\ fr'.targetScale = BaseScale(fr'.hand) + FMul(fr'.bass, 400)
          /\ \A c \in 1..3 :
                /\ xf'.scale[c] = VecLerp(xf.scale[c], fr'.targetScale, 80)
                /\ xf'.auraScale[c] =
                      VecLerp(xf.auraScale[c],
                              FMul(fr'.targetScale, One + FMul(fr'.bass, 500)), 80)
          /\ \A i \in Particles :
                /\ \A idx \in AxesOf(i) :
                      heap'[refs.vel][idx] =
                         FMul(heap[refs.vel][idx]
                                 + FMul(heap[refs.target][idx] - heap[geom.pos][idx], 30)
                                 + FMul(Rand(fr'.rnd, idx - 1) - 500,
                                        20 + FMul(fr'.treble, 100)),
                              920)
                /\ LET t == FMin(FMul(Speed(heap'[refs.vel], 3 * i), 3000)
                                    + FMul(fr'.treble, 500), One)
                   IN  \A c \in 1..3 :
                          heap'[geom.col][3 * i + c] =
                             Lerp(ThreeColor(cb.color)[c], THREE_COLOR_HOT[c], t) ]_vars
\* a frame over several particles ran with treble and bass, and the hand
\* producer has published a new pose since
C18_SnapshotOutdated ==
    /\ frames >= 1 /\ cb.count = MaxCount /\ MaxCount > 1
    /\ fr.treble > 0 /\ fr.bass > 0
    /\ fr.hand # HandLocals(handData)
    /\ \A i \in Particles : \E c \in 1..3 :
          heap[geom.col][3 * i + c] # ThreeColor(cb.color)[c]

\* a call of getFrequencyData has returned
Measured == call.fn = "getFrequencyData" /\ call.done
\* the service of the call is initialized and has not been stopped
Running(svc) == svc.isRunning /\ svc.analyser /\ svc.dataArray

\* C19: bass, mid, treble and average of every value getFrequencyData returns
\* lie within [0, 1], for every content of the byte frequency array and in
\* every state of the service (not initialized, running, stopped).
C19_BandsNormalized ==
    Measured =>
        \A band \in {call.result.bass, call.result.mid,
                     call.result.treble, call.result.average} :
            band >= 0 /\ band <= One
\* a running service measured a spectrum with every bin at full scale
C19_FullScaleMeasured ==
    /\ Measured /\ Running(call.svc) /\ call.data = Loud
    /\ call.result = [bass |-> One, mid |-> One, treble |-> One, average |-> One]

\* the mean of bins lo..hi (both included) of the byte array, over 255
MeanOfBins(data, lo, hi) ==
    RoundDiv(RoundDiv(SumBins(data, lo, hi + 1) * One, hi - lo + 1), 255)

\* C20: a running service computes bass as the mean of bins 0-4, mid as the
\* mean of bins 5-30 and treble as the mean of bins 31-255, so that each of
\* the 256 bins contributes to exactly one band.
C20_BandsPartitionBins ==
    Measured /\ Running(call.svc) =>
        /\ call.result.bass = MeanOfBins(call.data, 0, 4)
        /\ call.result.mid = MeanOfBins(call.data, 5, 30)
        /\ call.result.treble = MeanOfBins(call.data, 31, 255)

\* processCommand has returned
Processed == call.fn = "processCommand" /\ call.done
\* the values of the commands of one type that were emitted
Emitted(type) ==
    { call.result[k].value :
         k \in { j \in 1..Len(call.result) : call.result[j].type = type } }
\* the transcript says a prefix word (mode or colour), white space, and the
\* word value
SaysAfterPrefix(text, value) ==
    \E k \in 1..Len(combinedPrefixes) :
       Includes(<<" ">> \o text \o <<" ">>,
                <<" ">> \o combinedPrefixes[k] \o <<" ">> \o value \o <<" ">>)

\* C21: whenever a transcript without RESET, CLEAR or DEFAULT contains a mode
\* prefix or colour word followed by white space and a digit 0-9 or a number
\* word ZERO..NINE, processCommand emits SET_NUM with that value; and it
\* never emits SET_NUM with a value outside 0..9.
C21_SpokenNumberIsSet ==
    Processed /\ ~IncludesAny(call.text, ResetWords) =>
        /\ \A n \in 0..9 :
              (\/ SaysAfterPrefix(call.text, << DigitChars[n + 1] >>)
               \/ SaysAfterPrefix(call.text, NUMBER_WORD_MAP[n + 1]))
                 => << DigitChars[n + 1] >> \in Emitted("SET_NUM")
        /\ Emitted("SET_NUM") \subseteq { << DigitChars[n + 1] >> : n \in 0..9 }

\* the positions of the commands of one type in the emitted sequence
EmittedAt(type) == { k \in 1..Len(call.result) : call.result[k].type = type }

\* C22: processCommand passes over the generic SHAPE command for TEXT only
\* when it matched a letter value and for NUMBER only when it matched a
\* number value: a transcript (without a reset word) that contains the shape
\* name NUMBER (TEXT) and for which no SET_NUM (SET_CHAR) was emitted still
\* gets a SHAPE command; and no transcript gets more than one.
C22_ShapeSkippedOnlyForValue ==
    Processed /\ ~IncludesAny(call.text, ResetWords) =>
        /\ Includes(call.text, ShapeNUMBER) /\ EmittedAt("SET_NUM") = {}
              => EmittedAt("SHAPE") # {}
        /\ Includes(call.text, ShapeTEXT) /\ EmittedAt("SET_CHAR") = {}
              => EmittedAt("SHAPE") # {}
        /\ Cardinality(EmittedAt("SHAPE")) <= 1

\* this step called recognition.start()
StartInvoked == speech' # speech /\ speech'.invoked = "start"

\* C23: after stop(), or after a 'not-allowed' error, recognition.start() is
\* not invoked again until the caller invokes start(): only start() itself
\* and the callback of a restart timer ever invoke it, and the callback does
\* so only while the caller's latest request is start() and the service
\* should be running; in particular no end, start or error event invokes it.
C23_NoRestartAfterStop ==
    [][ StartInvoked =>
          \/ speech'.event = "start"
          \/ /\ speech'.event = "timer"
             /\ speech.wanted
             /\ voice.shouldBeRunning ]_vars
\* a restart timer that outlived stop() has fired without restarting
C23_StaleTimerFired ==
    /\ voice.recognition /\ ~speech.wanted
    /\ speech.event = "timer" /\ speech.invoked = "none"

\* the session has just ended while the caller's latest request is start()
EndedWhileWanted == speech.event = "onend" /\ speech.wanted

\* C24: if the session ends while the service is meant to be running
\* (start() was called, and neither stop() nor a 'not-allowed' error has
\* occurred since), then recognition.start() is eventually invoked again,
\* provided the restart timer fires and no stop() intervenes.
C24_EndLeadsToRestart ==
    EndedWhileWanted ~> (speech.invoked = "start" \/ ~speech.wanted)

\* C25: the service never invokes recognition.start() while the recognition
\* session is under way (started and not yet ended), under every ordering of
\* start(), stop(), the restart timer and the start and end events.
C25_StartOnlyWhenEnded == ~(speech.invoked = "start" /\ speech.busy)

=============================================================================
